---- MODULE Spec2Model ----
(***************************************************************************)
(* Model of server/session.go: one session, its read task (Consume), its   *)
(* writer / keep-alive task (processOutgoing), concurrent SendBytes        *)
(* callers and an external caller of Close.  Every blocking point of the   *)
(* Go code (Lock, channel send, channel receive, select) is a guard.  A     *)
(* step runs from one blocking point to the next: Lock, the statements     *)
(* under the lock and Unlock form one step, unless the task blocks or      *)
(* writes on the connection while it holds the lock.                       *)
(***************************************************************************)
EXTENDS Integers, Sequences, FiniteSets, TLC

\* config.SocketConfig.OutgoingQueueSize: capacity of outgoingCh
OutgoingQueueSize == 1
\* config.SocketConfig.ReceivedMessageDecrementCount
ReceivedMessageDecrementCount == 2
\* number of external stimuli of one run: SendBytes invocations, frames the
\* peer delivers to ReadMessage, Close invocations of the application
MaxEvents == 3

Reader == "r"
Writer == "w"
Closer == "x"
Senders == {"s1", "s2"}
Tasks == {Reader, Writer, Closer} \cup Senders
NoTask == "none"
\* zero value a receive on a closed, empty channel yields
NilPayload == 0

VARIABLES
    pc,                    \* position of every task
    ret,                   \* where a task continues when its Close returns
    mu,                    \* holder of the embedded sync.Mutex, or NoTask
    closed,                \* session.closed
    outgoingCh,            \* buffered payloads of session.outgoingCh
    chClosed,              \* close(outgoingCh) has happened
    timerActive,           \* pingTimer is armed
    timerC,                \* a tick is buffered in pingTimer.C
    pingTimerCas,          \* session.pingTimerCas
    receivedMsgDecrement,  \* session.receivedMsgDecrement
    connClosed,            \* conn.Close() has happened
    writing,               \* tasks with a write on the connection in progress
    written,               \* payloads written on the connection as data frames
    accepted,              \* payloads enqueued on outgoingCh, in order
    removeCount,           \* calls of sessionHolder.remove
    chCloseCount,          \* executions of close(outgoingCh)
    connCloseCount,        \* calls of conn.Close
    closedSetCount,        \* executions of s.closed = true
    panicked,              \* a Go runtime panic happened
    isStream,              \* SendBytes argument of each sender
    payload,               \* SendBytes argument of each sender
    sbResult,              \* what the last SendBytes of a sender returned
    nextPayload,           \* next fresh payload
    wPayload,              \* payload the writer received from outgoingCh
    frameOK,               \* the frame at hand decodes
    rpFrom,                \* caller of resetPingTimer: "pong" or "data"
    rpOk,                  \* what resetPingTimer returns
    dataFrames,            \* data frames ReadMessage has returned
    handlerCalls,          \* invocations of handlerFunc
    rCloseCalls,           \* invocations of Close by the read task
    events                 \* external stimuli so far

vars == <<pc, ret, mu, closed, outgoingCh, chClosed, timerActive, timerC,
          pingTimerCas, receivedMsgDecrement, connClosed, writing, written,
          accepted, removeCount, chCloseCount, connCloseCount, closedSetCount,
          panicked, isStream, payload, sbResult, nextPayload, wPayload, frameOK,
          rpFrom, rpOk, dataFrames, handlerCalls, rCloseCalls, events>>

\* the outgoing queue
chVars == <<outgoingCh, chClosed, accepted>>

\* the keep-alive timer
timerVars == <<timerActive, timerC>>

\* the connection
connVars == <<connClosed, writing, written>>

\* call counters of Close's body
countVars == <<removeCount, chCloseCount, connCloseCount, closedSetCount>>

\* the read loop's variables and the re-arm gate
readerState == <<receivedMsgDecrement, frameOK, rpFrom, rpOk, pingTimerCas,
                 dataFrames, handlerCalls>>

\* variables only the read task touches
readerVars == <<readerState, rCloseCalls>>

\* arguments and results of SendBytes
senderVars == <<isStream, payload, sbResult, nextPayload>>

\* NewSession: the state after construction, no task started
Init ==
    /\ pc = [t \in Tasks |-> IF t = Reader THEN "r_start" ELSE "idle"]
    /\ ret = [t \in Tasks |-> "done"]
    /\ mu = NoTask
    /\ closed = FALSE
    /\ outgoingCh = <<>>
    /\ chClosed = FALSE
    /\ timerActive = TRUE
    /\ timerC = FALSE
    /\ pingTimerCas = 1
    /\ receivedMsgDecrement = ReceivedMessageDecrementCount
    /\ connClosed = FALSE
    /\ writing = {}
    /\ written = <<>>
    /\ accepted = <<>>
    /\ removeCount = 0
    /\ chCloseCount = 0
    /\ connCloseCount = 0
    /\ closedSetCount = 0
    /\ panicked = FALSE
    /\ isStream = [t \in Senders |-> FALSE]
    /\ payload = [t \in Senders |-> NilPayload]
    /\ sbResult = [t \in Senders |-> "none"]
    /\ nextPayload = 1
    /\ wPayload = NilPayload
    /\ frameOK = TRUE
    /\ rpFrom = "none"
    /\ rpOk = TRUE
    /\ dataFrames = 0
    /\ handlerCalls = 0
    /\ rCloseCalls = 0
    /\ events = 0

\* move task t to label l
Goto(t, l) == pc' = [pc EXCEPT ![t] = l]

\* call s.Close() from task t and continue at l when it returns
CallClose(t, l) ==
    /\ pc' = [pc EXCEPT ![t] = "c_lock"]
    /\ ret' = [ret EXCEPT ![t] = l]

\* the read task calls s.Close() and continues at l when it returns
ReaderClose(l) ==
    /\ CallClose(Reader, l)
    /\ rCloseCalls' = rCloseCalls + 1

----------------------------------------------------------------------------
\* session.Close

\* mutant of CloseEnter: the closed check is missing, every caller runs the
\* body
CloseEnterNoGuard(t) ==
    /\ pc[t] = "c_lock"
    /\ mu = NoTask
    /\ closed' = TRUE
    /\ closedSetCount' = closedSetCount + 1
    /\ Goto(t, "c_remove")
    /\ UNCHANGED <<ret, mu, removeCount, chCloseCount, connCloseCount,
                   panicked, wPayload, events>>
    /\ UNCHANGED <<chVars, timerVars, connVars, readerVars, senderVars>>

\* Lock; if s.closed { Unlock; return }; s.closed = true; Unlock
CloseEnter(t) ==
    /\ pc[t] = "c_lock"
    /\ mu = NoTask
    /\ IF closed
       THEN /\ Goto(t, ret[t])
            /\ UNCHANGED <<closed, closedSetCount>>
       ELSE /\ closed' = TRUE
            /\ closedSetCount' = closedSetCount + 1
            /\ Goto(t, "c_remove")
    /\ UNCHANGED <<ret, mu, removeCount, chCloseCount, connCloseCount,
                   panicked, wPayload, events>>
    /\ UNCHANGED <<chVars, timerVars, connVars, readerVars, senderVars>>

\* s.sessionHolder.remove(s.id); s.pingTimer.Stop(): a tick already in
\* pingTimer.C stays there
CloseRemove(t) ==
    /\ pc[t] = "c_remove"
    /\ removeCount' = removeCount + 1
    /\ timerActive' = FALSE
    /\ Goto(t, "c_closech")
    /\ UNCHANGED <<ret, mu, closed, timerC, chCloseCount, connCloseCount,
                   closedSetCount, panicked, wPayload, events>>
    /\ UNCHANGED <<chVars, connVars, readerVars, senderVars>>

\* close(s.outgoingCh): buffered payloads stay receivable; closing a closed
\* channel panics
CloseChannel(t) ==
    /\ pc[t] = "c_closech"
    /\ chCloseCount' = chCloseCount + 1
    /\ chClosed' = TRUE
    /\ IF chClosed
       THEN panicked' = TRUE /\ Goto(t, "panic")
       ELSE UNCHANGED panicked /\ Goto(t, "c_writectl")
    /\ UNCHANGED <<ret, mu, closed, outgoingCh, accepted, removeCount,
                   connCloseCount, closedSetCount, wPayload, events>>
    /\ UNCHANGED <<timerVars, connVars, readerVars, senderVars>>

\* s.conn.WriteControl(CloseMessage, ...) starts writing
CloseWriteControl(t) ==
    /\ pc[t] = "c_writectl"
    /\ writing' = writing \cup {t}
    /\ Goto(t, "c_writing")
    /\ UNCHANGED <<ret, mu, closed, connClosed, written, panicked, wPayload,
                   events>>
    /\ UNCHANGED <<chVars, timerVars, countVars, readerVars, senderVars>>

\* WriteControl returns (an error is only logged); s.conn.Close(); Close
\* returns to its caller
CloseConn(t) ==
    /\ pc[t] = "c_writing"
    /\ writing' = writing \ {t}
    /\ connClosed' = TRUE
    /\ connCloseCount' = connCloseCount + 1
    /\ Goto(t, ret[t])
    /\ UNCHANGED <<ret, mu, closed, written, removeCount, chCloseCount,
                   closedSetCount, panicked, wPayload, events>>
    /\ UNCHANGED <<chVars, timerVars, readerVars, senderVars>>

\* an external caller (application logic) invokes Close
ExternalClose ==
    /\ pc[Closer] = "idle"
    /\ events < MaxEvents
    /\ events' = events + 1
    /\ CallClose(Closer, "idle")
    /\ UNCHANGED <<mu, closed, panicked, wPayload>>
    /\ UNCHANGED <<chVars, timerVars, connVars, countVars, readerVars,
                   senderVars>>

----------------------------------------------------------------------------
\* session.SendBytes

\* a caller invokes SendBytes(stream, mode, payload) with a fresh payload
SendBytes(t, stream) ==
    /\ pc[t] = "idle"
    /\ events < MaxEvents
    /\ events' = events + 1
    /\ isStream' = [isStream EXCEPT ![t] = stream]
    /\ payload' = [payload EXCEPT ![t] = nextPayload]
    /\ sbResult' = [sbResult EXCEPT ![t] = "none"]
    /\ nextPayload' = nextPayload + 1
    /\ Goto(t, "sb_lock")
    /\ UNCHANGED <<ret, mu, closed, panicked, wPayload>>
    /\ UNCHANGED <<chVars, timerVars, connVars, countVars, readerVars>>

\* s.outgoingCh <- payload succeeds: the payload is buffered
Enqueue(t) ==
    /\ outgoingCh' = Append(outgoingCh, payload[t])
    /\ accepted' = Append(accepted, payload[t])

\* SendBytes returns r to the caller of task t
Return(t, r) ==
    /\ sbResult' = [sbResult EXCEPT ![t] = r]
    /\ isStream' = [isStream EXCEPT ![t] = FALSE]
    /\ payload' = [payload EXCEPT ![t] = NilPayload]
    /\ Goto(t, "idle")

\* mutant of SendBytesEnter: on a full queue the error is returned without
\* calling Close
SendBytesEnterNoClose(t) ==
    /\ pc[t] = "sb_lock"
    /\ mu = NoTask
    /\ IF closed
       THEN /\ Return(t, "nil")
            /\ UNCHANGED <<mu, outgoingCh, accepted, panicked>>
       ELSE IF chClosed
       THEN /\ panicked' = TRUE
            /\ Goto(t, "panic")
            /\ UNCHANGED <<mu, outgoingCh, accepted, sbResult, isStream,
                           payload>>
       ELSE IF Len(outgoingCh) < OutgoingQueueSize
       THEN /\ Enqueue(t)
            /\ Return(t, "nil")
            /\ UNCHANGED <<mu, panicked>>
       ELSE IF isStream[t]
       THEN /\ mu' = t
            /\ Goto(t, "sb_stream")
            /\ UNCHANGED <<outgoingCh, accepted, sbResult, isStream,
                           payload, panicked>>
       ELSE /\ Goto(t, "sb_err")
            /\ UNCHANGED <<mu, outgoingCh, accepted, sbResult, isStream,
                           payload, panicked>>
    /\ UNCHANGED <<ret, closed, chClosed, wPayload, events, nextPayload>>
    /\ UNCHANGED <<timerVars, connVars, countVars, readerVars>>

\* mutant of SendBytesEnter: the closed check is missing
SendBytesEnterNoClosedCheck(t) ==
    /\ pc[t] = "sb_lock"
    /\ mu = NoTask
    /\ IF chClosed
       THEN /\ panicked' = TRUE
            /\ Goto(t, "panic")
            /\ UNCHANGED <<ret, mu, outgoingCh, accepted, sbResult, isStream,
                           payload>>
       ELSE IF Len(outgoingCh) < OutgoingQueueSize
       THEN /\ Enqueue(t)
            /\ Return(t, "nil")
            /\ UNCHANGED <<ret, mu, panicked>>
       ELSE IF isStream[t]
       THEN /\ mu' = t
            /\ Goto(t, "sb_stream")
            /\ UNCHANGED <<ret, outgoingCh, accepted, sbResult, isStream,
                           payload, panicked>>
       ELSE /\ CallClose(t, "sb_err")
            /\ UNCHANGED <<mu, outgoingCh, accepted, sbResult, isStream,
                           payload, panicked>>
    /\ UNCHANGED <<closed, chClosed, wPayload, events, nextPayload>>
    /\ UNCHANGED <<timerVars, connVars, countVars, readerVars>>

\* mutant of SendBytesEnter: a stream send gives the lock back before it
\* blocks on the full queue
SendBytesEnterUnlocked(t) ==
    /\ pc[t] = "sb_lock"
    /\ mu = NoTask
    /\ IF closed
       THEN /\ Return(t, "nil")
            /\ UNCHANGED <<ret, outgoingCh, accepted, panicked>>
       ELSE IF chClosed
       THEN /\ panicked' = TRUE
            /\ Goto(t, "panic")
            /\ UNCHANGED <<ret, outgoingCh, accepted, sbResult, isStream,
                           payload>>
       ELSE IF Len(outgoingCh) < OutgoingQueueSize
       THEN /\ Enqueue(t)
            /\ Return(t, "nil")
            /\ UNCHANGED <<ret, panicked>>
       ELSE IF isStream[t]
       THEN /\ Goto(t, "sb_stream")
            /\ UNCHANGED <<ret, outgoingCh, accepted, sbResult, isStream,
                           payload, panicked>>
       ELSE /\ CallClose(t, "sb_err")
            /\ UNCHANGED <<outgoingCh, accepted, sbResult, isStream,
                           payload, panicked>>
    /\ UNCHANGED <<mu, closed, chClosed, wPayload, events, nextPayload>>
    /\ UNCHANGED <<timerVars, connVars, countVars, readerVars>>
\* mutant of SendBytesEnter: on a full queue Close is called with the lock
\* still held
SendBytesEnterCloseLocked(t) ==
    /\ pc[t] = "sb_lock"
    /\ mu = NoTask
    /\ IF closed
       THEN /\ Return(t, "nil")
            /\ UNCHANGED <<ret, mu, outgoingCh, accepted, panicked>>
       ELSE IF chClosed
       THEN /\ panicked' = TRUE
            /\ Goto(t, "panic")
            /\ UNCHANGED <<ret, mu, outgoingCh, accepted, sbResult, isStream,
                           payload>>
       ELSE IF Len(outgoingCh) < OutgoingQueueSize
       THEN /\ Enqueue(t)
            /\ Return(t, "nil")
            /\ UNCHANGED <<ret, mu, panicked>>
       ELSE IF isStream[t]
       THEN /\ mu' = t
            /\ Goto(t, "sb_stream")
            /\ UNCHANGED <<ret, outgoingCh, accepted, sbResult, isStream,
                           payload, panicked>>
       ELSE /\ mu' = t
            /\ CallClose(t, "sb_err")
            /\ UNCHANGED <<outgoingCh, accepted, sbResult, isStream,
                           payload, panicked>>
    /\ UNCHANGED <<closed, chClosed, wPayload, events, nextPayload>>
    /\ UNCHANGED <<timerVars, connVars, countVars, readerVars>>

\* Lock; if s.closed { Unlock; return nil }; isStream: the channel send, which
\* blocks while the queue is full, the lock still held; otherwise the select:
\* enqueue, Unlock, return nil, or default: Unlock and Close
SendBytesEnter(t) ==
    /\ pc[t] = "sb_lock"
    /\ mu = NoTask
    /\ IF closed
       THEN /\ Return(t, "nil")
            /\ UNCHANGED <<ret, mu, outgoingCh, accepted, panicked>>
       ELSE IF chClosed
       THEN /\ panicked' = TRUE
            /\ Goto(t, "panic")
            /\ UNCHANGED <<ret, mu, outgoingCh, accepted, sbResult, isStream,
                           payload>>
       ELSE IF Len(outgoingCh) < OutgoingQueueSize
       THEN /\ Enqueue(t)
            /\ Return(t, "nil")
            /\ UNCHANGED <<ret, mu, panicked>>
       ELSE IF isStream[t]
       THEN /\ mu' = t
            /\ Goto(t, "sb_stream")
            /\ UNCHANGED <<ret, outgoingCh, accepted, sbResult, isStream,
                           payload, panicked>>
       ELSE /\ CallClose(t, "sb_err")
            /\ UNCHANGED <<mu, outgoingCh, accepted, sbResult, isStream,
                           payload, panicked>>
    /\ UNCHANGED <<closed, chClosed, wPayload, events, nextPayload>>
    /\ UNCHANGED <<timerVars, connVars, countVars, readerVars>>

\* the blocked s.outgoingCh <- payload of a stream send completes when the
\* queue has room; Unlock; return nil.  A send on a closed channel panics.
SendBytesStream(t) ==
    /\ pc[t] = "sb_stream"
    /\ chClosed \/ Len(outgoingCh) < OutgoingQueueSize
    /\ IF chClosed
       THEN /\ panicked' = TRUE
            /\ Goto(t, "panic")
            /\ UNCHANGED <<mu, outgoingCh, accepted, sbResult, isStream,
                           payload>>
       ELSE /\ Enqueue(t)
            /\ mu' = NoTask
            /\ Return(t, "nil")
            /\ UNCHANGED panicked
    /\ UNCHANGED <<ret, closed, chClosed, wPayload, events, nextPayload>>
    /\ UNCHANGED <<timerVars, connVars, countVars, readerVars>>

\* Close has returned: return errors.New("outgoing queue full")
SendBytesError(t) ==
    /\ pc[t] = "sb_err"
    /\ Return(t, "err")
    /\ UNCHANGED <<ret, mu, closed, panicked, wPayload, events,
                   nextPayload>>
    /\ UNCHANGED <<chVars, timerVars, connVars, countVars, readerVars>>

----------------------------------------------------------------------------
\* the keep-alive timer

\* the armed timer expires: a tick is put in pingTimer.C
TimerFire ==
    /\ timerActive
    /\ timerActive' = FALSE
    /\ timerC' = TRUE
    /\ UNCHANGED <<pc, ret, mu, closed, panicked, wPayload, events>>
    /\ UNCHANGED <<chVars, connVars, countVars, readerVars, senderVars>>

----------------------------------------------------------------------------
\* session.processOutgoing and session.pingNow

\* select case <-s.pingTimer.C
WriterTick ==
    /\ pc[Writer] = "w_select"
    /\ timerC
    /\ timerC' = FALSE
    /\ Goto(Writer, "w_ping_lock")
    /\ UNCHANGED <<ret, mu, closed, timerActive, panicked, wPayload,
                   events>>
    /\ UNCHANGED <<chVars, connVars, countVars, readerVars, senderVars>>
\* mutant of WriterReceive: a receive on the closed and empty channel blocks
WriterReceiveBlocks ==
    /\ pc[Writer] = "w_select"
    /\ Len(outgoingCh) > 0
    /\ wPayload' = Head(outgoingCh)
    /\ outgoingCh' = Tail(outgoingCh)
    /\ Goto(Writer, "w_data_lock")
    /\ UNCHANGED <<ret, mu, closed, chClosed, accepted, panicked, events>>
    /\ UNCHANGED <<timerVars, connVars, countVars, readerVars, senderVars>>

\* select case payload := <-s.outgoingCh: the oldest buffered payload, or the
\* zero value once the channel is closed and empty
WriterReceive ==
    /\ pc[Writer] = "w_select"
    /\ IF Len(outgoingCh) > 0
       THEN /\ wPayload' = Head(outgoingCh)
            /\ outgoingCh' = Tail(outgoingCh)
       ELSE /\ chClosed
            /\ wPayload' = NilPayload
            /\ UNCHANGED outgoingCh
    /\ Goto(Writer, "w_data_lock")
    /\ UNCHANGED <<ret, mu, closed, chClosed, accepted, panicked, events>>
    /\ UNCHANGED <<timerVars, connVars, countVars, readerVars, senderVars>>

\* mutant of WriterDataEnter: the closed check is missing
WriterDataEnterNoCheck ==
    /\ pc[Writer] = "w_data_lock"
    /\ mu = NoTask
    /\ mu' = Writer
    /\ writing' = writing \cup {Writer}
    /\ Goto(Writer, "w_data_write")
    /\ UNCHANGED <<ret, wPayload, closed, connClosed, written, panicked,
                   events>>
    /\ UNCHANGED <<chVars, timerVars, countVars, readerVars, senderVars>>

\* Lock; if s.closed { Unlock; return }; SetWriteDeadline; WriteMessage
\* starts, the lock held
WriterDataEnter ==
    /\ pc[Writer] = "w_data_lock"
    /\ mu = NoTask
    /\ IF closed
       THEN /\ CallClose(Writer, "done")
            /\ wPayload' = NilPayload
            /\ UNCHANGED <<mu, writing>>
       ELSE /\ mu' = Writer
            /\ writing' = writing \cup {Writer}
            /\ Goto(Writer, "w_data_write")
            /\ UNCHANGED <<ret, wPayload>>
    /\ UNCHANGED <<closed, connClosed, written, panicked, events>>
    /\ UNCHANGED <<chVars, timerVars, countVars, readerVars, senderVars>>
\* mutant of WriterDataWritten: a failed write does not end the task, the
\* loop goes on with the next payload
WriterDataWrittenContinue ==
    /\ pc[Writer] = "w_data_write"
    /\ writing' = writing \ {Writer}
    /\ mu' = NoTask
    /\ wPayload' = NilPayload
    /\ \E ok \in BOOLEAN :
          IF ok /\ ~connClosed
          THEN /\ written' = Append(written, wPayload)
               /\ Goto(Writer, "w_select")
               /\ UNCHANGED ret
          ELSE /\ Goto(Writer, "w_select")
               /\ UNCHANGED <<ret, written>>
    /\ UNCHANGED <<closed, connClosed, panicked, events>>
    /\ UNCHANGED <<chVars, timerVars, countVars, readerVars, senderVars>>

\* WriteMessage(TextMessage, payload) returns; Unlock; on an error return
WriterDataWritten ==
    /\ pc[Writer] = "w_data_write"
    /\ writing' = writing \ {Writer}
    /\ mu' = NoTask
    /\ wPayload' = NilPayload
    /\ \E ok \in BOOLEAN :
          IF ok /\ ~connClosed
          THEN /\ written' = Append(written, wPayload)
               /\ Goto(Writer, "w_select")
               /\ UNCHANGED ret
          ELSE /\ CallClose(Writer, "done")
               /\ UNCHANGED written
    /\ UNCHANGED <<closed, connClosed, panicked, events>>
    /\ UNCHANGED <<chVars, timerVars, countVars, readerVars, senderVars>>

\* mutant of WriterPingEnter: the closed check is missing
WriterPingEnterNoCheck ==
    /\ pc[Writer] = "w_ping_lock"
    /\ mu = NoTask
    /\ \E deadlineOK \in BOOLEAN :
          IF ~deadlineOK
          THEN /\ CallClose(Writer, "done")
               /\ UNCHANGED <<mu, writing>>
          ELSE /\ mu' = Writer
               /\ writing' = writing \cup {Writer}
               /\ Goto(Writer, "w_ping_write")
               /\ UNCHANGED ret
    /\ UNCHANGED <<closed, connClosed, written, panicked, wPayload, events>>
    /\ UNCHANGED <<chVars, timerVars, countVars, readerVars, senderVars>>

\* pingNow: Lock; if s.closed { Unlock; return false }; SetWriteDeadline
\* fails: Unlock; return false; else WriteMessage(PingMessage) starts, the
\* lock held
WriterPingEnter ==
    /\ pc[Writer] = "w_ping_lock"
    /\ mu = NoTask
    /\ \E deadlineOK \in BOOLEAN :
          IF closed \/ ~deadlineOK \/ connClosed
          THEN /\ CallClose(Writer, "done")
               /\ UNCHANGED <<mu, writing>>
          ELSE /\ mu' = Writer
               /\ writing' = writing \cup {Writer}
               /\ Goto(Writer, "w_ping_write")
               /\ UNCHANGED ret
    /\ UNCHANGED <<closed, connClosed, written, panicked, wPayload,
                   events>>
    /\ UNCHANGED <<chVars, timerVars, countVars, readerVars, senderVars>>

\* pingNow: WriteMessage(PingMessage) returns; Unlock; on an error return
\* false, which ends processOutgoing
WriterPingWritten ==
    /\ pc[Writer] = "w_ping_write"
    /\ writing' = writing \ {Writer}
    /\ mu' = NoTask
    /\ \E ok \in BOOLEAN :
          IF ok /\ ~connClosed
          THEN Goto(Writer, "w_select") /\ UNCHANGED ret
          ELSE CallClose(Writer, "done")
    /\ UNCHANGED <<closed, connClosed, written, panicked, wPayload,
                   events>>
    /\ UNCHANGED <<chVars, timerVars, countVars, readerVars, senderVars>>

----------------------------------------------------------------------------
\* session.Consume and session.resetPingTimer

\* SetReadLimit; SetReadDeadline fails: return; else SetPongHandler and
\* go s.processOutgoing()
ConsumeStart ==
    /\ pc[Reader] = "r_start"
    /\ \E ok \in BOOLEAN :
          IF ok /\ ~connClosed
          THEN /\ pc' = [pc EXCEPT ![Reader] = "r_read", ![Writer] = "w_select"]
               /\ UNCHANGED <<ret, rCloseCalls>>
          ELSE ReaderClose("done")
    /\ UNCHANGED <<mu, closed, panicked, wPayload, events>>
    /\ UNCHANGED <<chVars, timerVars, connVars, countVars, readerState,
                   senderVars>>

\* ReadMessage returns an error (peer closed, read deadline expired,
\* connection closed): break
ReadError ==
    /\ pc[Reader] = "r_read"
    /\ ReaderClose("done")
    /\ UNCHANGED <<mu, closed, panicked, wPayload, events>>
    /\ UNCHANGED <<chVars, timerVars, connVars, countVars, readerState,
                   senderVars>>

\* inside ReadMessage a pong arrives: the pong handler calls resetPingTimer
ReadPong ==
    /\ pc[Reader] = "r_read"
    /\ events < MaxEvents
    /\ events' = events + 1
    /\ rpFrom' = "pong"
    /\ Goto(Reader, "rp_cas")
    /\ UNCHANGED <<ret, mu, closed, panicked, wPayload,
                   receivedMsgDecrement, frameOK, rpOk, pingTimerCas,
                   dataFrames, handlerCalls, rCloseCalls>>
    /\ UNCHANGED <<chVars, timerVars, connVars, countVars, senderVars>>
\* mutant of ReadData: the re-arm is attempted when the counter is at 1
\* already
ReadDataOffByOne ==
    /\ pc[Reader] = "r_read"
    /\ events < MaxEvents
    /\ events' = events + 1
    /\ \E ok \in BOOLEAN : frameOK' = ok
    /\ dataFrames' = dataFrames + 1
    /\ IF receivedMsgDecrement - 1 <= 1
       THEN /\ receivedMsgDecrement' = ReceivedMessageDecrementCount
            /\ rpFrom' = "data"
            /\ Goto(Reader, "rp_cas")
       ELSE /\ receivedMsgDecrement' = receivedMsgDecrement - 1
            /\ Goto(Reader, "r_handle")
            /\ UNCHANGED rpFrom
    /\ UNCHANGED <<ret, mu, closed, panicked, wPayload, rpOk,
                   pingTimerCas, handlerCalls, rCloseCalls>>
    /\ UNCHANGED <<chVars, timerVars, connVars, countVars, senderVars>>

\* ReadMessage returns a frame; s.receivedMsgDecrement--; below 1 it is set
\* back to the configured count and resetPingTimer is called
ReadData ==
    /\ pc[Reader] = "r_read"
    /\ events < MaxEvents
    /\ events' = events + 1
    /\ \E ok \in BOOLEAN : frameOK' = ok
    /\ dataFrames' = dataFrames + 1
    /\ IF receivedMsgDecrement - 1 < 1
       THEN /\ receivedMsgDecrement' = ReceivedMessageDecrementCount
            /\ rpFrom' = "data"
            /\ Goto(Reader, "rp_cas")
       ELSE /\ receivedMsgDecrement' = receivedMsgDecrement - 1
            /\ Goto(Reader, "r_handle")
            /\ UNCHANGED rpFrom
    /\ UNCHANGED <<ret, mu, closed, panicked, wPayload, rpOk,
                   pingTimerCas, handlerCalls, rCloseCalls>>
    /\ UNCHANGED <<chVars, timerVars, connVars, countVars, senderVars>>

\* resetPingTimer: if !s.pingTimerCas.CAS(1, 0) { return true }
ResetCas ==
    /\ pc[Reader] = "rp_cas"
    /\ IF pingTimerCas = 1
       THEN /\ pingTimerCas' = 0
            /\ Goto(Reader, "rp_lock")
       ELSE /\ Goto(Reader, "rp_ret")
            /\ UNCHANGED pingTimerCas
    /\ rpOk' = TRUE
    /\ UNCHANGED <<ret, mu, closed, panicked, wPayload, events,
                   receivedMsgDecrement, frameOK, rpFrom, dataFrames,
                   handlerCalls, rCloseCalls>>
    /\ UNCHANGED <<chVars, timerVars, connVars, countVars, senderVars>>
\* mutant of ResetEnter: the return on a closed session skips the release of
\* the gate
ResetEnterNoRelease ==
    /\ pc[Reader] = "rp_lock"
    /\ mu = NoTask
    /\ IF closed
       THEN /\ rpOk' = FALSE
            /\ Goto(Reader, "rp_ret")
            /\ UNCHANGED <<ret, timerActive, timerC, rCloseCalls>>
       ELSE /\ timerActive' = TRUE
            /\ timerC' = IF timerActive THEN timerC ELSE FALSE
            /\ \E ok \in BOOLEAN :
                  IF ok /\ ~connClosed
                  THEN /\ rpOk' = TRUE
                       /\ Goto(Reader, "rp_defer")
                       /\ UNCHANGED <<ret, rCloseCalls>>
                  ELSE /\ rpOk' = FALSE
                       /\ ReaderClose("rp_defer")
    /\ UNCHANGED <<mu, closed, pingTimerCas, panicked, wPayload, events,
                   receivedMsgDecrement, frameOK, rpFrom, dataFrames,
                   handlerCalls>>
    /\ UNCHANGED <<chVars, connVars, countVars, senderVars>>
\* mutant of ResetEnter: the closed check is missing
ResetEnterNoCheck ==
    /\ pc[Reader] = "rp_lock"
    /\ mu = NoTask
    /\ timerActive' = TRUE
    /\ timerC' = IF timerActive THEN timerC ELSE FALSE
    /\ \E ok \in BOOLEAN :
          IF ok /\ ~connClosed
          THEN /\ rpOk' = TRUE
               /\ Goto(Reader, "rp_defer")
               /\ UNCHANGED <<ret, rCloseCalls>>
          ELSE /\ rpOk' = FALSE
               /\ ReaderClose("rp_defer")
    /\ UNCHANGED <<mu, closed, pingTimerCas, panicked, wPayload, events,
                   receivedMsgDecrement, frameOK, rpFrom, dataFrames,
                   handlerCalls>>
    /\ UNCHANGED <<chVars, connVars, countVars, senderVars>>

\* resetPingTimer: Lock; if s.closed { Unlock; return false }; stop the timer,
\* drain the tick of a timer that already fired, Reset; SetReadDeadline;
\* Unlock; on an error Close and return false
ResetEnter ==
    /\ pc[Reader] = "rp_lock"
    /\ mu = NoTask
    /\ IF closed
       THEN /\ rpOk' = FALSE
            /\ Goto(Reader, "rp_defer")
            /\ UNCHANGED <<ret, timerActive, timerC, rCloseCalls>>
       ELSE /\ timerActive' = TRUE
            /\ timerC' = IF timerActive THEN timerC ELSE FALSE
            /\ \E ok \in BOOLEAN :
                  IF ok /\ ~connClosed
                  THEN /\ rpOk' = TRUE
                       /\ Goto(Reader, "rp_defer")
                       /\ UNCHANGED <<ret, rCloseCalls>>
                  ELSE /\ rpOk' = FALSE
                       /\ ReaderClose("rp_defer")
    /\ UNCHANGED <<mu, closed, pingTimerCas, panicked, wPayload, events,
                   receivedMsgDecrement, frameOK, rpFrom, dataFrames,
                   handlerCalls>>
    /\ UNCHANGED <<chVars, connVars, countVars, senderVars>>

\* resetPingTimer: the deferred s.pingTimerCas.CAS(0, 1)
ResetDefer ==
    /\ pc[Reader] = "rp_defer"
    /\ pingTimerCas' = IF pingTimerCas = 0 THEN 1 ELSE pingTimerCas
    /\ Goto(Reader, "rp_ret")
    /\ UNCHANGED <<ret, mu, closed, panicked, wPayload, events,
                   receivedMsgDecrement, frameOK, rpFrom, rpOk, dataFrames,
                   handlerCalls, rCloseCalls>>
    /\ UNCHANGED <<chVars, timerVars, connVars, countVars, senderVars>>

\* resetPingTimer returns: the pong handler ignores the result and the read
\* goes on; the read loop returns when the result is false
ResetReturn ==
    /\ pc[Reader] = "rp_ret"
    /\ IF rpFrom = "pong"
       THEN Goto(Reader, "r_read") /\ UNCHANGED <<ret, rCloseCalls>>
       ELSE IF rpOk
       THEN Goto(Reader, "r_handle") /\ UNCHANGED <<ret, rCloseCalls>>
       ELSE ReaderClose("done")
    /\ rpFrom' = "none"
    /\ rpOk' = TRUE
    /\ UNCHANGED <<mu, closed, panicked, wPayload, events,
                   receivedMsgDecrement, frameOK, pingTimerCas, dataFrames,
                   handlerCalls>>
    /\ UNCHANGED <<chVars, timerVars, connVars, countVars, senderVars>>
\* mutant of Handle: when the handler returns false Consume returns without
\* the deferred Close
HandleNoClose ==
    /\ pc[Reader] = "r_handle"
    /\ frameOK' = TRUE
    /\ handlerCalls' = handlerCalls + 1
    /\ \E continue \in BOOLEAN :
          IF continue
          THEN Goto(Reader, "r_read")
          ELSE Goto(Reader, "done")
    /\ UNCHANGED <<ret, mu, closed, panicked, wPayload, events,
                   receivedMsgDecrement, rpFrom, rpOk, pingTimerCas,
                   dataFrames, rCloseCalls>>
    /\ UNCHANGED <<chVars, timerVars, connVars, countVars, senderVars>>

\* Unmarshal (a failure is only logged), then handlerFunc(s, request);
\* break when it returns false
Handle ==
    /\ pc[Reader] = "r_handle"
    /\ frameOK' = TRUE
    /\ handlerCalls' = handlerCalls + 1
    /\ \E continue \in BOOLEAN :
          IF continue
          THEN Goto(Reader, "r_read") /\ UNCHANGED <<ret, rCloseCalls>>
          ELSE ReaderClose("done")
    /\ UNCHANGED <<mu, closed, panicked, wPayload, events,
                   receivedMsgDecrement, rpFrom, rpOk, pingTimerCas,
                   dataFrames>>
    /\ UNCHANGED <<chVars, timerVars, connVars, countVars, senderVars>>

----------------------------------------------------------------------------

Next ==
    \/ \E t \in Tasks : CloseEnter(t)
    \/ \E t \in Tasks : CloseRemove(t)
    \/ \E t \in Tasks : CloseChannel(t)
    \/ \E t \in Tasks : CloseWriteControl(t)
    \/ \E t \in Tasks : CloseConn(t)
    \/ ExternalClose
    \/ \E t \in Senders : \E stream \in BOOLEAN : SendBytes(t, stream)
    \/ \E t \in Senders : SendBytesEnter(t)
    \/ \E t \in Senders : SendBytesStream(t)
    \/ \E t \in Senders : SendBytesError(t)
    \/ TimerFire
    \/ WriterTick
    \/ WriterReceive
    \/ WriterDataEnter
    \/ WriterDataWritten
    \/ WriterPingEnter
    \/ WriterPingWritten
    \/ ConsumeStart
    \/ ReadError
    \/ ReadPong
    \/ ReadData
    \/ ResetCas
    \/ ResetEnter
    \/ ResetDefer
    \/ ResetReturn
    \/ Handle

Spec == Init /\ [][Next]_vars

\* every step of the program is taken when it stays possible: each task is
\* scheduled, a blocked ReadMessage returns when the read deadline expires,
\* an armed timer fires.  Invocations by the application are not forced.
Fairness ==
    /\ \A t \in Tasks : WF_vars(CloseEnter(t))
    /\ \A t \in Tasks : WF_vars(CloseRemove(t))
    /\ \A t \in Tasks : WF_vars(CloseChannel(t))
    /\ \A t \in Tasks : WF_vars(CloseWriteControl(t))
    /\ \A t \in Tasks : WF_vars(CloseConn(t))
    /\ \A t \in Senders : WF_vars(SendBytesEnter(t))
    /\ \A t \in Senders : WF_vars(SendBytesStream(t))
    /\ \A t \in Senders : WF_vars(SendBytesError(t))
    /\ WF_vars(TimerFire)
    /\ WF_vars(WriterTick)
    /\ WF_vars(WriterReceive)
    /\ WF_vars(WriterDataEnter)
    /\ WF_vars(WriterDataWritten)
    /\ WF_vars(WriterPingEnter)
    /\ WF_vars(WriterPingWritten)
    /\ WF_vars(ConsumeStart)
    /\ WF_vars(ReadError \/ ReadPong \/ ReadData)
    /\ WF_vars(ResetCas)
    /\ WF_vars(ResetEnter)
    /\ WF_vars(ResetDefer)
    /\ WF_vars(ResetReturn)
    /\ WF_vars(Handle)

FairSpec == Spec /\ Fairness

\* the writer task is scheduled: each step of processOutgoing, pingNow and of
\* the deferred Close of the writer task is taken when it stays possible.
\* Nothing is assumed of the other tasks.
WriterFairness ==
    /\ WF_vars(WriterTick)
    /\ WF_vars(WriterReceive)
    /\ WF_vars(WriterDataEnter)
    /\ WF_vars(WriterDataWritten)
    /\ WF_vars(WriterPingEnter)
    /\ WF_vars(WriterPingWritten)
    /\ WF_vars(CloseEnter(Writer))
    /\ WF_vars(CloseRemove(Writer))
    /\ WF_vars(CloseChannel(Writer))
    /\ WF_vars(CloseWriteControl(Writer))
    /\ WF_vars(CloseConn(Writer))

WriterFairSpec == Spec /\ WriterFairness

----------------------------------------------------------------------------
\* helpers of the properties

\* the elements of a sequence
Range(q) == {q[i] : i \in 1..Len(q)}

\* positions of a task inside Close
ClosePcs == {"c_lock", "c_remove", "c_closech", "c_writectl", "c_writing"}

\* positions of a task inside the body of Close, after the closed check
BodyPcs == {"c_remove", "c_closech", "c_writectl", "c_writing"}

\* tasks that run the body of Close
BodyTasks == {t \in Tasks : pc[t] \in BodyPcs}

\* task t takes the step of SendBytes that acquires the lock
EntersSendBytes(t) == pc[t] = "sb_lock" /\ pc'[t] # "sb_lock"

----------------------------------------------------------------------------
\* C1: whatever tasks invoke Close and however they interleave, the body of
\* Close after the closed check is run by at most one task and exactly once:
\* the registry remove, the close of the outgoing queue and the close of the
\* connection each happen once, in that order, and nothing panics.
C1_CloseRunsOnce ==
    /\ Cardinality(BodyTasks) <= 1
    /\ removeCount =
          (IF closed /\ \A t \in Tasks : pc[t] # "c_remove" THEN 1 ELSE 0)
    /\ chCloseCount =
          (IF closed /\ \A t \in Tasks : pc[t] \notin {"c_remove", "c_closech"}
           THEN 1 ELSE 0)
    /\ connCloseCount = (IF closed /\ BodyTasks = {} THEN 1 ELSE 0)
    /\ (chClosed <=> chCloseCount = 1)
    /\ (connClosed <=> connCloseCount = 1)
    /\ ~panicked

\* the reader's and the writer's deferred Close and the Close of a sender
\* that found the queue full have all returned
C1_Witness ==
    /\ pc[Reader] = "done"
    /\ pc[Writer] = "done"
    /\ \E t \in Senders : sbResult[t] = "err"
    /\ connCloseCount = 1

\* C2: closed starts false, never goes back from true to false, and is set
\* to true by exactly one Close invocation.
C2_ClosedMonotonic ==
    /\ ~closed
    /\ [][closed => closed']_vars
    /\ [][closed' # closed =>
            \E t \in Tasks : pc[t] = "c_lock" /\ pc'[t] = "c_remove"]_vars
    /\ [](closedSetCount = IF closed THEN 1 ELSE 0)

\* the session is closed and every kind of task has run after that
C2_Witness ==
    /\ closed
    /\ closedSetCount = 1
    /\ pc[Reader] = "done"
    /\ pc[Writer] = "done"
    /\ \E t \in Senders : sbResult[t] = "nil"

\* C3: a non-stream SendBytes that finds the session open and the queue at
\* capacity does not enqueue its payload and goes on to Close; when it
\* returns, it returns the error, its payload was never enqueued and the
\* session is closed.
C3_Backpressure ==
    [][\A t \in Senders :
          /\ (EntersSendBytes(t) /\ ~isStream[t] /\ ~closed
                /\ Len(outgoingCh) = OutgoingQueueSize)
             => /\ pc'[t] = "c_lock"
                /\ ret'[t] = "sb_err"
                /\ UNCHANGED <<outgoingCh, accepted>>
          /\ (pc[t] \in ClosePcs /\ pc'[t] \notin ClosePcs)
             => /\ pc'[t] = "sb_err"
                /\ closed'
          /\ (pc[t] = "sb_err" /\ pc'[t] # "sb_err")
             => /\ sbResult'[t] = "err"
                /\ closed'
                /\ payload[t] \notin Range(accepted')
          /\ (sbResult'[t] = "err" /\ sbResult[t] # "err")
             => pc[t] = "sb_err"]_vars

\* a non-stream SendBytes has returned the error
C3_Witness ==
    \E t \in Senders : sbResult[t] = "err" /\ closed /\ pc[t] = "idle"

\* C4: a non-stream SendBytes, invoked while the writer task runs its loop,
\* always returns, whatever the other tasks do.
C4_NonStreamReturns ==
    \A t \in Senders :
        (pc[t] = "sb_lock" /\ ~isStream[t] /\ pc[Writer] = "w_select")
        ~> (pc[t] = "idle")

\* C5: a stream SendBytes that waits on the full queue returns only when the
\* queue has room, and, the writer task running its loop, always eventually
\* returns nil with its payload enqueued.
C5_StreamDelivers ==
    /\ [][\A t \in Senders :
            (pc[t] = "sb_stream" /\ pc'[t] # "sb_stream")
            => /\ Len(outgoingCh) < OutgoingQueueSize
               /\ payload[t] \in Range(accepted')
               /\ sbResult'[t] = "nil"]_vars
    /\ \A t \in Senders :
          (pc[t] = "sb_stream" /\ pc[Writer] = "w_select") ~> (pc[t] = "idle")

\* C6: a Close invoked from any task, the writer task started, always
\* eventually returns, the session closed.
C6_CloseReturns ==
    \A t \in Tasks :
        (pc[t] = "c_lock" /\ pc[Writer] # "idle")
        ~> (pc[t] \notin ClosePcs /\ closed)

\* C7: a SendBytes that finds the session closed returns nil and changes
\* neither the queue, the timer, the connection nor the closed flag, and it
\* invokes neither Close nor the registry.
C7_SendOnClosedIsNoop ==
    [][\A t \in Senders :
          (EntersSendBytes(t) /\ closed)
          => /\ sbResult'[t] = "nil"
             /\ pc'[t] = "idle"
             /\ UNCHANGED <<closed, mu, pingTimerCas, panicked>>
             /\ UNCHANGED <<chVars, timerVars, connVars, countVars>>]_vars

\* a stream and a non-stream SendBytes have returned nil on a closed session
\* that never accepted a payload
C7_Witness ==
    /\ closed
    /\ accepted = <<>>
    /\ \A t \in Senders : sbResult[t] = "nil"

\* C8: once closed is set no payload is enqueued, no sender waits on the
\* queue, and no send on the closed queue panics.
C8_NoEnqueueAfterClose ==
    /\ [][closed => accepted' = accepted /\ Len(outgoingCh') <= Len(outgoingCh)]_vars
    /\ [](\A t \in Senders : pc[t] = "sb_stream" => ~closed /\ ~chClosed)
    /\ [](~panicked)

\* the queue was closed while it held a payload and a SendBytes is pending
C8_Witness ==
    /\ chClosed
    /\ outgoingCh # <<>>
    /\ \E t \in Senders : pc[t] = "sb_lock"

\* C9 as stated: when Close has completed and the writer has terminated, the
\* outgoing queue is empty.
C9_DrainedAfterClose ==
    (connClosed /\ pc[Writer] = "done") => outgoingCh = <<>>

\* C9 amended: once closed is set the queue never grows and none of its
\* payloads is written any more; the writer takes payloads off it only to
\* drop them.
C9_NoGrowthAfterClose ==
    [][closed => /\ Len(outgoingCh') <= Len(outgoingCh)
                 /\ written' = written
                 /\ (outgoingCh' # outgoingCh
                       => outgoingCh' = Tail(outgoingCh)
                          /\ pc'[Writer] = "w_data_lock")]_vars

\* Close has completed, the writer has terminated, a payload is still queued
C9_Witness ==
    /\ connClosed
    /\ pc[Writer] = "done"
    /\ outgoingCh # <<>>

\* C10: at most one write on the connection is in progress; a write is the
\* writer's data frame or ping, or the close frame of the task that runs the
\* body of Close; the writer writes only while it holds the lock.
C10_WritesDoNotOverlap ==
    /\ Cardinality(writing) <= 1
    /\ \A t \in writing :
          \/ t = Writer /\ pc[t] \in {"w_data_write", "w_ping_write"} /\ mu = t
          \/ pc[t] = "c_writing"
    /\ \A t \in Senders : pc[t] \in {"sb_lock", "sb_stream"} => t \notin writing

\* the close frame is being written by a sender while the writer task and
\* the other sender are still running
C10_Witness ==
    /\ \E t \in Senders : t \in writing
    /\ pc[Writer] \in {"w_select", "w_data_lock", "w_ping_lock"}

C12_MalformedFrameDropped ==
    [][(pc[Reader] = "r_handle" /\ ~frameOK /\ pc'[Reader] # "r_handle")
         => /\ handlerCalls' = handlerCalls
            /\ pc'[Reader] = "r_read"]_vars

\* C13: when the read task is blocked in ReadMessage on a live session, the
\* peer silent, the read deadline expires and the session always eventually
\* is closed: closed set, registry entry removed, connection closed.
C13_SilentPeerIsClosed ==
    (pc[Reader] = "r_read" /\ ~closed)
    ~> (closed /\ removeCount = 1 /\ connClosed)

\* the read task is in the deferred Close of Consume, or Consume has returned
InDeferredClose ==
    \/ pc[Reader] = "done"
    \/ pc[Reader] \in ClosePcs /\ ret[Reader] = "done"

\* C14 as stated: when Consume has returned the read task has invoked Close
\* exactly once.
C14_ReaderClosesOnce ==
    pc[Reader] = "done" => rCloseCalls = 1

\* C14 amended: Consume returns only out of its deferred Close, which is
\* invoked once on every exit path; before that the read task invokes Close
\* at most once more, inside resetPingTimer when SetReadDeadline failed on
\* an open session; from the deferred Close on no handler is invoked, so
\* none is invoked after the handler returned false.
C14_DeferredCloseOnce ==
    /\ [][(pc'[Reader] = "done" /\ pc[Reader] # "done")
            => pc[Reader] \in ClosePcs /\ ret[Reader] = "done"]_vars
    /\ [][InDeferredClose
            => InDeferredClose' /\ UNCHANGED <<rCloseCalls, handlerCalls>>]_vars
    /\ [][(~InDeferredClose /\ InDeferredClose')
            => rCloseCalls' = rCloseCalls + 1]_vars
    /\ [][(rCloseCalls' # rCloseCalls /\ ~InDeferredClose')
            => /\ pc[Reader] = "rp_lock"
               /\ ~closed
               /\ rCloseCalls = 0
               /\ rCloseCalls' = 1
               /\ ret'[Reader] = "rp_defer"]_vars
    /\ [][(pc[Reader] = "r_handle" /\ pc'[Reader] \notin {"r_handle", "r_read"})
            => InDeferredClose']_vars
    /\ [](InDeferredClose => rCloseCalls \in {1, 2})

\* Consume has returned after a handler invocation and a failed re-arm whose
\* SetReadDeadline failed: the read task has invoked Close twice
C14_Witness ==
    /\ pc[Reader] = "done"
    /\ rCloseCalls = 2
    /\ handlerCalls >= 1

\* a re-arm is in flight: the read task is between the claim of the gate and
\* its deferred release, the Close of a failed SetReadDeadline included
InReArm ==
    \/ pc[Reader] \in {"rp_lock", "rp_defer"}
    \/ pc[Reader] \in ClosePcs /\ ret[Reader] = "rp_defer"

C16_OnlyCloseFrameAfterClose ==
    /\ [](closed => /\ pc[Writer] \notin {"w_data_write", "w_ping_write"}
                    /\ \A t \in writing : pc[t] = "c_writing")
    /\ [][closed => /\ written' = written
                    /\ ~(timerActive' /\ ~timerActive)]_vars
    /\ [][(closed /\ pc[Writer] \in {"w_data_lock", "w_ping_lock"}
                  /\ pc'[Writer] # pc[Writer])
            => pc'[Writer] = "c_lock" /\ ret'[Writer] = "done"]_vars
    /\ [][(closed /\ ~(writing' \subseteq writing))
            => /\ ~connClosed
               /\ \E t \in Tasks : /\ pc[t] = "c_writectl"
                                   /\ pc'[t] = "c_writing"
                                   /\ writing' = {t}]_vars

\* the session was closed while the writer holds a payload it took off the
\* queue and the read task is about to re-arm the timer
C16_Witness ==
    /\ closed
    /\ pc[Writer] = "w_data_lock"
    /\ wPayload # NilPayload
    /\ pc[Reader] = "rp_lock"

\* C17: when the writer task has left its loop on a failed write or a failed
\* write deadline and is in its deferred Close, the session always
\* eventually is closed: closed set, registry entry removed, connection
\* closed.
C17_WriterFailureCloses ==
    (pc[Writer] = "c_lock" /\ ~closed)
    ~> (closed /\ removeCount = 1 /\ connClosed)

\* C18: once closed is set and the outgoing queue is closed, a started writer
\* task always eventually terminates, from the select, from the wait for the
\* lock and with a tick in hand; and the writer task terminates only when
\* the session is closed.
C18_WriterEndsWithSession ==
    /\ (closed /\ chClosed /\ pc[Writer] # "idle") ~> (pc[Writer] = "done")
    /\ [](pc[Writer] = "done" => closed)
    /\ [][(pc[Writer] \in {"w_select", "w_data_lock", "w_ping_lock"}
             /\ closed /\ pc'[Writer] # pc[Writer])
            => pc'[Writer] \in {"w_data_lock", "w_ping_lock", "c_lock"}]_vars

\* the queue is closed and empty while the writer task waits in its select
\* with no tick pending: only the receive of the zero value ends it
C18_Witness ==
    /\ closed
    /\ chClosed
    /\ outgoingCh = <<>>
    /\ ~timerC
    /\ ~timerActive
    /\ pc[Writer] = "w_select"

\* C19: with N the configured count, the throttle counter stays within 1..N
\* and is N less the number of frames read since the last attempt; the read
\* loop goes into resetPingTimer on the frames N, 2N, 3N, ... and on no
\* other frame; when resetPingTimer returns false for a frame the loop ends
\* in the deferred Close and the handler is not invoked for that frame.
C19_ThrottledReset ==
    /\ [](receivedMsgDecrement \in 1..ReceivedMessageDecrementCount)
    /\ [](receivedMsgDecrement = ReceivedMessageDecrementCount
             - (dataFrames % ReceivedMessageDecrementCount))
    /\ [][dataFrames' # dataFrames
            => /\ dataFrames' = dataFrames + 1
               /\ IF dataFrames' % ReceivedMessageDecrementCount = 0
                  THEN pc'[Reader] = "rp_cas" /\ rpFrom' = "data"
                  ELSE pc'[Reader] = "r_handle" /\ rpFrom' = "none"]_vars
    /\ [][(rpFrom' = "data" /\ rpFrom # "data")
            => dataFrames' = dataFrames + 1]_vars
    /\ [][(pc[Reader] = "rp_ret" /\ rpFrom = "data" /\ ~rpOk
             /\ pc'[Reader] # "rp_ret")
            => /\ pc'[Reader] = "c_lock"
               /\ ret'[Reader] = "done"
               /\ handlerCalls' = handlerCalls]_vars
    /\ [](pc[Reader] = "r_read" => handlerCalls = dataFrames)
    /\ [](handlerCalls <= dataFrames)

\* the attempt on frame N has reported failure after the handler ran for
\* the frames before it
C19_Witness ==
    /\ dataFrames = ReceivedMessageDecrementCount
    /\ handlerCalls = ReceivedMessageDecrementCount - 1
    /\ pc[Reader] = "rp_ret"
    /\ rpFrom = "data"
    /\ ~rpOk

\* positions at which a task is about to acquire the lock
LockPcs == {"c_lock", "sb_lock", "w_data_lock", "w_ping_lock", "rp_lock"}

\* positions at which a task holds the lock across steps: the stream send
\* that waits on the queue and the two writes of the writer task
HoldPcs == {"sb_stream", "w_data_write", "w_ping_write"}

\* C20: the task that holds the lock is at one of the positions where the
\* code holds it, never at an acquisition of the lock, inside Close or at a
\* return; the lock is taken only when it is free and by the task that
\* comes to hold it, and given back only by its holder.
C20_LockDiscipline ==
    /\ [](mu \in Tasks \cup {NoTask})
    /\ [](\A t \in Tasks : mu = t => pc[t] \in HoldPcs)
    /\ [](\A t \in Tasks : pc[t] \in LockPcs \cup ClosePcs \cup {"idle", "done"}
                              => mu # t)
    /\ [](\A t \in Senders : pc[t] = "sb_stream" => mu = t)
    /\ [](\A t \in Tasks : pc[t] \in {"w_data_write", "w_ping_write"} => mu = t)
    /\ [][mu' # mu => \/ mu = NoTask /\ pc[mu'] \in LockPcs
                                     /\ pc'[mu'] \in HoldPcs
                      \/ mu' = NoTask /\ pc[mu] \in HoldPcs
                                      /\ pc'[mu] \notin HoldPcs]_vars
    /\ [][\A t \in Tasks : (pc[t] \in LockPcs /\ pc'[t] # pc[t]) => mu = NoTask]_vars

\* a non-stream SendBytes that found the queue full is in Close, the lock
\* given back, while a stream SendBytes waits for the lock
C20_Witness ==
    /\ mu = NoTask
    /\ \E t \in Senders : pc[t] \in BodyPcs /\ ret[t] = "sb_err"
    /\ \E t \in Senders : pc[t] = "sb_lock" /\ isStream[t]

====
